---- MODULE Spec2Model ----
(***************************************************************************)
(* RAGWorkflow of app.py: an event-driven workflow of four steps (ingest,  *)
(* retrieve, rerank, synthesize) run by w.run with keyword arguments.      *)
(* Every step is a coroutine task that waits for an event of the type its  *)
(* `ev` parameter is annotated with; a step's `await`s are the points      *)
(* where another task may run.  The external calls (directory reader,     *)
(* vector index, LLM reranker, LLM summarizer) are modelled by the shape   *)
(* of what they return: which nodes they return is a nondeterministic      *)
(* choice.                                                                 *)
(***************************************************************************)
EXTENDS Naturals, Sequences, FiniteSets

\* ---------------------------------------------------------------- bounds
\* number of chunks (nodes) the directory "docs" is split into
MaxNodes == 3
\* number of w.run(...) calls made on the one workflow instance
MaxRuns == 2

\* ------------------------------------------------------ program constants
\* index.as_retriever(similarity_top_k=2)
similarity_top_k == 2
\* LLMRerank(choice_batch_size=5, top_n=3, ...)
top_n == 3

\* ----------------------------------------------------------------- values
\* Python's None, as the value of ev.get(key) for a key that was not passed
None == "None"

Nodes == 1 .. MaxNodes

\* index is None
NoneIndex == [tag |-> "None"]

\* a VectorStoreIndex over the chunks S
VectorStoreIndex(S) == [tag |-> "index", nodes |-> S]

\* the chunks SimpleDirectoryReader(dirname).load_data() yields
DirNodes(dirname) == IF dirname = "docs" THEN Nodes ELSE {1}

\* the keyword arguments w.run may be given
Dirnames == {None, "", "docs"}
Queries == {None, "", "q1", "q2"}
Indexes == {NoneIndex, VectorStoreIndex({1}), VectorStoreIndex(Nodes)}

Steps == {"ingest", "retrieve", "rerank", "synthesize"}
EventTypes == {"StartEvent", "RetrieverEvent", "RerankEvent", "StopEvent"}

StartEvent(d, q, i) == [type |-> "StartEvent", dirname |-> d, query |-> q, index |-> i]
RetrieverEvent(ns) == [type |-> "RetrieverEvent", nodes |-> ns]
RerankEvent(ns) == [type |-> "RerankEvent", nodes |-> ns]
StopEvent(r) == [type |-> "StopEvent", result |-> r]
NoEvent == [type |-> "NoEvent"]

\* the result w.run returns: nothing yet, the index, or the streamed response
NoResult == [kind |-> "none"]
IndexResult(i) == [kind |-> "index", index |-> i]
ResponseResult(q, ns) == [kind |-> "response", query |-> q, nodes |-> ns]

\* a test `if x is None:` in the place of `if not x:`
FalsyIsNone(x) == x = None

\* `if not x:` for x a string or None
Falsy(x) == x = None \/ x = ""

\* synthesize annotated `ev: RetrieverEvent | RerankEvent`
AcceptsSynthesizeEarly(s, t) ==
    \/ s \in {"ingest", "retrieve"} /\ t = "StartEvent"
    \/ s = "rerank" /\ t = "RetrieverEvent"
    \/ s = "synthesize" /\ t \in {"RetrieverEvent", "RerankEvent"}

\* rerank annotated `ev: RetrieverEvent | RerankEvent`
AcceptsRerankOwn(s, t) ==
    \/ s \in {"ingest", "retrieve"} /\ t = "StartEvent"
    \/ s = "rerank" /\ t \in {"RetrieverEvent", "RerankEvent"}
    \/ s = "synthesize" /\ t = "RerankEvent"

\* the type annotation of each step's `ev` parameter: the events it is sent
Accepts(s, t) ==
    \/ s = "ingest" /\ t = "StartEvent"
    \/ s = "retrieve" /\ t = "StartEvent"
    \/ s = "rerank" /\ t = "RetrieverEvent"
    \/ s = "synthesize" /\ t = "RerankEvent"

\* ---------------------------------------------------------------- context
\* the Context of a run is a dictionary, empty when the run starts
EmptyCtx == [k \in {} |-> None]

\* a ctx.set that is not awaited and never runs
CtxSetDropped(c, key, value) == c

\* await ctx.set(key, value)
CtxSet(c, key, value) == [k \in DOMAIN c \cup {key} |-> IF k = key THEN value ELSE c[k]]

\* await ctx.get(key, default=None)
CtxGet(c, key) == IF key \in DOMAIN c THEN c[key] ELSE None

\* --------------------------------------------------------- external calls
Min(a, b) == IF a < b THEN a ELSE b

\* the sequences of n distinct elements of S
Arrangements(S, n) ==
    {f \in [1 .. n -> S] : \A i, j \in 1 .. n : f[i] = f[j] => i = j}

Range(f) == {f[i] : i \in DOMAIN f}

\* a retriever built without similarity_top_k: every chunk of the index
RetrievedAll(index) == Arrangements(index.nodes, Cardinality(index.nodes))

\* retriever.aretrieve(query): the similarity_top_k nearest chunks of the
\* index, nearest first (all of them when the index holds fewer)
Retrieved(index) ==
    Arrangements(index.nodes, Min(similarity_top_k, Cardinality(index.nodes)))

\* ranker.postprocess_nodes(nodes, query_str): the chunks the LLM chooses
\* among the ones it is shown, ordered by the relevance it gives them, cut
\* to the top_n first
Reranked(nodes) ==
    UNION {Arrangements(Range(nodes), n) : n \in 0 .. Min(top_n, Len(nodes))}

\* ------------------------------------------------------------------ state
VARIABLES
    phase,    \* "idle" | "running" | "done" (StopEvent) | "timeout"
    runs,     \* number of w.run calls made so far
    start,    \* the StartEvent of the current run
    ctx,      \* the Context of the current run
    queue,    \* per step, the events sent to it and not yet taken
    pc,       \* per step, where its coroutine stands
    ev,       \* per step, the event it is handling
    qread,    \* the values the steps got from ctx.get("query")
    count,    \* per step, how many times it ran in this run
    log,      \* the events sent in this run, in the order they were sent
    result,   \* what the run returned
    prev      \* the previous run: its StartEvent and the kind of its result

vars == <<phase, runs, start, ctx, queue, pc, ev, qread, count, log, result, prev>>

Unread == "unread"
Readers == {"print", "rerank", "synthesize"}

\* ctx.send_event(e): e goes to every step that accepts its type
Send(q, e) == [s \in Steps |-> IF Accepts(s, e.type) THEN Append(q[s], e) ELSE q[s]]

NoQueues == [s \in Steps |-> <<>>]

Init ==
    /\ phase = "idle"
    /\ runs = 0
    /\ start = NoEvent
    /\ ctx = EmptyCtx
    /\ queue = NoQueues
    /\ pc = [s \in Steps |-> "wait"]
    /\ ev = [s \in Steps |-> NoEvent]
    /\ qread = [r \in Readers |-> Unread]
    /\ count = [s \in Steps |-> 0]
    /\ log = <<>>
    /\ result = NoResult
    /\ prev = [start |-> NoEvent, kind |-> "none"]

\* w.run(dirname=d, query=q, index=i): a new Context, every step task
\* waiting, and the StartEvent sent
Run(d, q, i) ==
    /\ phase # "running"
    /\ runs < MaxRuns
    /\ phase' = "running"
    /\ runs' = runs + 1
    /\ start' = StartEvent(d, q, i)
    /\ ctx' = EmptyCtx
    /\ queue' = Send(NoQueues, StartEvent(d, q, i))
    /\ pc' = [s \in Steps |-> "wait"]
    /\ ev' = [s \in Steps |-> NoEvent]
    /\ qread' = [r \in Readers |-> Unread]
    /\ count' = [s \in Steps |-> 0]
    /\ log' = <<StartEvent(d, q, i)>>
    /\ result' = NoResult
    /\ prev' = IF phase = "idle" THEN prev ELSE [start |-> start, kind |-> result.kind]

StartRun == \E d \in Dirnames, q \in Queries, i \in Indexes : Run(d, q, i)

\* a step task takes the next event of its queue
Takes(s) ==
    /\ phase = "running"
    /\ pc[s] = "wait"
    /\ queue[s] # <<>>

\* a step returned StopEvent(result=r): the run ends with r
Stops(r) ==
    /\ phase' = "done"
    /\ result' = r
    /\ log' = Append(log, StopEvent(r))

\* `return StopEvent()`: the index is built and dropped
IngestResultEmpty(dirname) == NoResult

\* ingest: documents = SimpleDirectoryReader(dirname).load_data();
\* index = VectorStoreIndex.from_documents(documents, ...); the result is index
IngestResult(dirname) == IndexResult(VectorStoreIndex(DirNodes(dirname)))

\* an ingest that keeps the index it built in the context
IngestStoring ==
    /\ Takes("ingest")
    /\ queue' = [queue EXCEPT !["ingest"] = Tail(@)]
    /\ count' = [count EXCEPT !["ingest"] = @ + 1]
    /\ LET dirname == Head(queue["ingest"]).dirname IN
       IF Falsy(dirname)
       THEN UNCHANGED <<phase, result, log, ctx>>
       ELSE /\ Stops(IngestResult(dirname))
            /\ ctx' = CtxSet(ctx, "index", VectorStoreIndex(DirNodes(dirname)))
    /\ UNCHANGED <<runs, start, pc, ev, qread, prev>>

\* ingest(ctx, ev: StartEvent) -> StopEvent | None; it awaits nothing
Ingest ==
    /\ Takes("ingest")
    /\ queue' = [queue EXCEPT !["ingest"] = Tail(@)]
    /\ count' = [count EXCEPT !["ingest"] = @ + 1]
    /\ LET dirname == Head(queue["ingest"]).dirname IN
       IF Falsy(dirname)
       THEN UNCHANGED <<phase, result, log>>
       ELSE Stops(IngestResult(dirname))
    /\ UNCHANGED <<runs, start, ctx, pc, ev, qread, prev>>

\* the events of type t sent in this run
Sent(t) == {i \in DOMAIN log : log[i].type = t}
Emitted(t) == Cardinality(Sent(t))

\* how many times an event of type t was taken by a step in this run
Consumed(t) ==
    (IF Accepts("ingest", t) THEN count["ingest"] ELSE 0)
    + (IF Accepts("retrieve", t) THEN count["retrieve"] ELSE 0)
    + (IF Accepts("rerank", t) THEN count["rerank"] ELSE 0)
    + (IF Accepts("synthesize", t) THEN count["synthesize"] ELSE 0)

\* a step is enabled (an event waits for it) or executing
Active(s) == phase = "running" /\ (pc[s] # "wait" \/ queue[s] # <<>>)

\* the step s returns: its task waits for the next event
Returns(s) ==
    /\ pc' = [pc EXCEPT ![s] = "wait"]
    /\ ev' = [ev EXCEPT ![s] = NoEvent]

\* the step s takes the event e and runs up to its first await, at label l
Begins(s, l) ==
    /\ Takes(s)
    /\ queue' = [queue EXCEPT ![s] = Tail(@)]
    /\ count' = [count EXCEPT ![s] = @ + 1]
    /\ pc' = [pc EXCEPT ![s] = l]
    /\ ev' = [ev EXCEPT ![s] = Head(queue[s])]

\* a step that builds its event and returns None
EmitsNothing(s, e) ==
    /\ Returns(s)
    /\ UNCHANGED <<queue, log>>

\* the step s emits the event e and returns
Emits(s, e) ==
    /\ queue' = Send(queue, e)
    /\ log' = Append(log, e)
    /\ Returns(s)

\* retrieve, up to `await ctx.set`: query = ev.get("query");
\* index = ev.get("index"); if not query: return None
RetrieveBegin ==
    /\ Takes("retrieve")
    /\ queue' = [queue EXCEPT !["retrieve"] = Tail(@)]
    /\ count' = [count EXCEPT !["retrieve"] = @ + 1]
    /\ IF Falsy(Head(queue["retrieve"]).query)
       THEN UNCHANGED <<pc, ev>>
       ELSE /\ pc' = [pc EXCEPT !["retrieve"] = "ctx_set"]
            /\ ev' = [ev EXCEPT !["retrieve"] = Head(queue["retrieve"])]
    /\ UNCHANGED <<phase, runs, start, ctx, qread, log, result, prev>>

\* a retrieve that tests the index before it stores the query
RetrieveSetCheckFirst ==
    /\ phase = "running"
    /\ pc["retrieve"] = "ctx_set"
    /\ IF ev["retrieve"].index = NoneIndex
       THEN /\ Returns("retrieve")
            /\ ctx' = ctx
       ELSE /\ ctx' = CtxSet(ctx, "query", ev["retrieve"].query)
            /\ pc' = [pc EXCEPT !["retrieve"] = "aretrieve"]
            /\ ev' = ev
    /\ UNCHANGED <<phase, runs, start, queue, qread, count, log, result, prev>>

\* retrieve: await ctx.set("query", query); if index is None: return None;
\* retriever.aretrieve(query) is called
RetrieveSet ==
    /\ phase = "running"
    /\ pc["retrieve"] = "ctx_set"
    /\ ctx' = CtxSet(ctx, "query", ev["retrieve"].query)
    /\ IF ev["retrieve"].index = NoneIndex
       THEN Returns("retrieve")
       ELSE /\ pc' = [pc EXCEPT !["retrieve"] = "aretrieve"]
            /\ ev' = ev
    /\ UNCHANGED <<phase, runs, start, queue, qread, count, log, result, prev>>

\* retrieve: nodes = await retriever.aretrieve(query);
\* return RetrieverEvent(nodes=nodes)
RetrieveEmit ==
    /\ phase = "running"
    /\ pc["retrieve"] = "aretrieve"
    /\ \E nodes \in Retrieved(ev["retrieve"].index) :
          Emits("retrieve", RetrieverEvent(nodes))
    /\ UNCHANGED <<phase, runs, start, ctx, qread, count, result, prev>>

\* rerank, up to the first `await ctx.get`: the ranker is built
RerankBegin ==
    /\ Begins("rerank", "get_print")
    /\ UNCHANGED <<phase, runs, start, ctx, qread, log, result, prev>>

\* rerank: print(await ctx.get("query", default=None))
RerankPrint ==
    /\ phase = "running"
    /\ pc["rerank"] = "get_print"
    /\ qread' = [qread EXCEPT !["print"] = CtxGet(ctx, "query")]
    /\ pc' = [pc EXCEPT !["rerank"] = "get_query"]
    /\ UNCHANGED <<phase, runs, start, ctx, queue, ev, count, log, result, prev>>

\* rerank: new_nodes = ranker.postprocess_nodes(ev.nodes,
\* query_str=await ctx.get("query", default=None));
\* return RerankEvent(nodes=new_nodes)
RerankEmit ==
    /\ phase = "running"
    /\ pc["rerank"] = "get_query"
    /\ qread' = [qread EXCEPT !["rerank"] = CtxGet(ctx, "query")]
    /\ \E new_nodes \in Reranked(ev["rerank"].nodes) :
          Emits("rerank", RerankEvent(new_nodes))
    /\ UNCHANGED <<phase, runs, start, ctx, count, result, prev>>

\* synthesize, up to `await ctx.get`: the llm and the summarizer are built
SynthesizeBegin ==
    /\ Begins("synthesize", "get_query")
    /\ UNCHANGED <<phase, runs, start, ctx, qread, log, result, prev>>

\* synthesize: query = await ctx.get("query", default=None);
\* summarizer.asynthesize(query, nodes=ev.nodes) is called
SynthesizeGet ==
    /\ phase = "running"
    /\ pc["synthesize"] = "get_query"
    /\ qread' = [qread EXCEPT !["synthesize"] = CtxGet(ctx, "query")]
    /\ pc' = [pc EXCEPT !["synthesize"] = "asynthesize"]
    /\ UNCHANGED <<phase, runs, start, ctx, queue, ev, count, log, result, prev>>

\* synthesize: response = await summarizer.asynthesize(...);
\* return StopEvent(result=response)
SynthesizeStop ==
    /\ phase = "running"
    /\ pc["synthesize"] = "asynthesize"
    /\ Stops(ResponseResult(qread["synthesize"], ev["synthesize"].nodes))
    /\ Returns("synthesize")
    /\ UNCHANGED <<runs, start, ctx, queue, qread, count, prev>>

\* no step is left to run and no StopEvent was returned: w.run gives up
\* (the workflow's timeout) without a result
Timeout ==
    /\ phase = "running"
    /\ \A s \in Steps : ~Active(s)
    /\ phase' = "timeout"
    /\ UNCHANGED <<runs, start, ctx, queue, pc, ev, qread, count, log, result, prev>>

Next ==
    \/ StartRun
    \/ Ingest
    \/ RetrieveBegin
    \/ RetrieveSet
    \/ RetrieveEmit
    \/ RerankBegin
    \/ RerankPrint
    \/ RerankEmit
    \/ SynthesizeBegin
    \/ SynthesizeGet
    \/ SynthesizeStop
    \/ Timeout

Spec == Init /\ [][Next]_vars

\* every step task that can run is eventually run by the event loop
FairSpec ==
    /\ Spec
    /\ WF_vars(Ingest)
    /\ WF_vars(RetrieveBegin)
    /\ WF_vars(RetrieveSet)
    /\ WF_vars(RetrieveEmit)
    /\ WF_vars(RerankBegin)
    /\ WF_vars(RerankPrint)
    /\ WF_vars(RerankEmit)
    /\ WF_vars(SynthesizeBegin)
    /\ WF_vars(SynthesizeGet)
    /\ WF_vars(SynthesizeStop)

\* ----------------------------------------------------------------- claims
Chain == {"retrieve", "rerank", "synthesize"}

\* the event of type t sent in this run, when there is one
TheEvent(t) == log[CHOOSE i \in DOMAIN log : log[i].type = t]

\* the step s ran and returned
Returned(s) == count[s] = 1 /\ pc[s] = "wait"

\* an argument that was not passed to w.run, or was passed empty
Missing(x) == x \in {None, ""}

\* a run is under way or over
InRun == phase # "idle"

\* the StartEvent has what ingest needs / what retrieve needs
HasDirname == InRun /\ ~Missing(start.dirname)
HasQueryAndIndex == InRun /\ ~Missing(start.query) /\ start.index # NoneIndex

\* C1: in a run with a query and an index and no dirname, retrieve, rerank
\* and synthesize each run at most once and in this order (rerank only after
\* retrieve sent its RetrieverEvent, synthesize only after rerank sent its
\* RerankEvent), the run never stalls, and when it is over each ran exactly
\* once and the StopEvent carries the response synthesize built from the
\* query and the reranked nodes.
C1_RetrieveRerankSynthesize ==
    (HasQueryAndIndex /\ Missing(start.dirname)) =>
        /\ \A s \in Steps : count[s] <= 1
        /\ \A t \in EventTypes : Emitted(t) <= 1
        /\ count["rerank"] > 0 =>
              Returned("retrieve") /\ Emitted("RetrieverEvent") = 1
        /\ count["synthesize"] > 0 =>
              Returned("rerank") /\ Emitted("RerankEvent") = 1
        /\ phase # "timeout"
        /\ phase = "done" =>
              /\ \A s \in Chain : Returned(s)
              /\ result = ResponseResult(start.query, TheEvent("RerankEvent").nodes)
              /\ log[Len(log)] = StopEvent(result)

C1_Witness ==
    /\ HasQueryAndIndex
    /\ Missing(start.dirname)
    /\ phase = "done"
    /\ result.kind = "response"

\* C2 as stated: at no point are two steps enabled or executing at the same
\* time, and every event is taken by exactly one step.
C2_OneStepAtATime ==
    /\ Cardinality({s \in Steps : Active(s)}) <= 1
    /\ \A t \in EventTypes : Consumed(t) <= Emitted(t)

\* C2 amended: the StartEvent goes to the two entry steps, ingest and
\* retrieve, which are both enabled when the run starts; every RetrieverEvent
\* and RerankEvent is taken by one step only, and no two of retrieve, rerank,
\* synthesize are enabled or executing at the same time.
C2_TwoEntrySteps ==
    /\ Cardinality({s \in Chain : Active(s)}) <= 1
    /\ \A s \in Steps : Len(queue[s]) <= 1
    /\ \A t \in {"RetrieverEvent", "RerankEvent"} : Consumed(t) <= Emitted(t)
    /\ Consumed("StartEvent") <= 2 * Emitted("StartEvent")
    /\ (phase = "running" /\ \A s \in Steps : count[s] = 0) =>
          Active("ingest") /\ Active("retrieve")

C2_Witness ==
    /\ Active("ingest")
    /\ Active("rerank")
    /\ Consumed("RetrieverEvent") = 1

\* C3: with no dirname (or an empty one) ingest sends no event; with no query
\* (or an empty one) or an index of None retrieve sends no event, so that no
\* RetrieverEvent, RerankEvent or response exists in the run and rerank and
\* synthesize do not run.
C3_MissingInputReturnsNothing ==
    /\ (InRun /\ Missing(start.dirname)) =>
          /\ result.kind # "index"
          /\ Returned("ingest") =>
                \A i \in DOMAIN log : log[i].type = "StopEvent" => log[i].result.kind = "response"
    /\ (InRun /\ (Missing(start.query) \/ start.index = NoneIndex)) =>
          /\ Emitted("RetrieverEvent") = 0
          /\ Emitted("RerankEvent") = 0
          /\ count["rerank"] = 0
          /\ count["synthesize"] = 0
          /\ result.kind # "response"
          /\ pc["retrieve"] # "aretrieve"

C3_Witness ==
    /\ InRun
    /\ start.dirname = ""
    /\ ~Missing(start.query)
    /\ start.index = NoneIndex
    /\ Returned("ingest")
    /\ Returned("retrieve")
    /\ log = <<start>>

\* C4: in a run with a dirname and no query, retrieve returns nothing, rerank
\* and synthesize never run, the run cannot stall, and it ends with the
\* StopEvent of ingest, whose result is the index built from the directory.
C4_IngestRun ==
    (HasDirname /\ Missing(start.query)) =>
        /\ Emitted("RetrieverEvent") = 0
        /\ pc["retrieve"] = "wait"
        /\ count["rerank"] = 0
        /\ count["synthesize"] = 0
        /\ phase # "timeout"
        /\ Returned("ingest") <=> phase = "done"
        /\ phase = "done" =>
              /\ result = IndexResult(VectorStoreIndex(DirNodes(start.dirname)))
              /\ log[Len(log)] = StopEvent(result)
              /\ Emitted("StopEvent") = 1

C4_Witness ==
    /\ HasDirname
    /\ Missing(start.query)
    /\ phase = "done"
    /\ Returned("retrieve")
    /\ result.kind = "index"

\* C5: a RetrieverEvent carries at most similarity_top_k = 2 nodes; the nodes
\* of the RerankEvent are among the nodes of the RetrieverEvent and are at
\* most min(top_n, number of retrieved nodes); at most 2 nodes reach
\* synthesize and its response.
C5_TopKTopN ==
    /\ Emitted("RetrieverEvent") > 0 =>
          Len(TheEvent("RetrieverEvent").nodes) <= 2
    /\ Emitted("RerankEvent") > 0 =>
          /\ Emitted("RetrieverEvent") > 0
          /\ Range(TheEvent("RerankEvent").nodes) \subseteq Range(TheEvent("RetrieverEvent").nodes)
          /\ Len(TheEvent("RerankEvent").nodes) <= Min(3, Len(TheEvent("RetrieverEvent").nodes))
          /\ Len(TheEvent("RerankEvent").nodes) <= 2
    /\ pc["synthesize"] # "wait" => Len(ev["synthesize"].nodes) <= 2
    /\ result.kind = "response" => Len(result.nodes) <= 2

C5_Witness ==
    /\ InRun
    /\ start.index = VectorStoreIndex(Nodes)
    /\ pc["synthesize"] = "asynthesize"
    /\ Len(ev["synthesize"].nodes) = 2

Answerable == HasDirname \/ HasQueryAndIndex

\* C7: a run ends with a StopEvent only if its StartEvent has a dirname or
\* has a query and an index, and every such run eventually does; in every
\* other run no step is enabled once ingest and retrieve have returned, and
\* that point is eventually reached.
C7_StopEventIff ==
    /\ [](phase = "done" => Answerable)
    /\ (phase = "running" /\ Answerable) ~> (phase = "done")
    /\ []((phase = "running" /\ ~Answerable /\ Returned("ingest") /\ Returned("retrieve")) =>
             (\A s \in Steps : ~Active(s)) /\ result = NoResult)
    /\ (phase = "running" /\ ~Answerable) ~>
          (~Answerable /\ Emitted("StopEvent") = 0 /\ \A s \in Steps : ~Active(s))

C7_Witness ==
    /\ phase = "timeout"
    /\ ~Missing(start.query)
    /\ start.index = NoneIndex
    /\ Missing(start.dirname)

C9_QueryFromContext ==
    /\ \A r \in Readers :
          qread[r] # Unread => qread[r] = start.query /\ qread[r] # None
    /\ "query" \in DOMAIN ctx =>
          ctx["query"] = start.query /\ count["retrieve"] = 1
    /\ Emitted("RetrieverEvent") > 0 => "query" \in DOMAIN ctx
    /\ result.kind = "response" => result.query = start.query

C9_Witness ==
    /\ qread["print"] = "q2"
    /\ qread["rerank"] = "q2"
    /\ qread["synthesize"] = "q2"
    /\ prev.start.type = "StartEvent"
    /\ prev.start.query = "q1"

\* retrieve ran, sent nothing and returned
RetrieveReturnedNothing ==
    InRun /\ Returned("retrieve") /\ Emitted("RetrieverEvent") = 0

\* C10 as stated: when retrieve returns nothing the context is as it was
\* before retrieve ran (empty).
C10_ReturnNothingLeavesContext ==
    RetrieveReturnedNothing => ctx = EmptyCtx

\* C10 amended: the context is empty until retrieve stores the query; when
\* retrieve returns nothing because the query is missing the context is
\* still empty, and when it returns nothing because the index is None the
\* context holds the query under "query" and nothing else.
C10_QueryStoredBeforeIndexTest ==
    /\ (InRun /\ count["retrieve"] = 0) => ctx = EmptyCtx
    /\ RetrieveReturnedNothing =>
          IF Missing(start.query)
          THEN ctx = EmptyCtx
          ELSE start.index = NoneIndex /\ ctx = CtxSet(EmptyCtx, "query", start.query)

C10_Witness ==
    /\ RetrieveReturnedNothing
    /\ ~Missing(start.query)
    /\ start.index = NoneIndex
    /\ "query" \in DOMAIN ctx
====
